---- MODULE Spec2Model ----
(***************************************************************************)
(* The buffered MongoDB logging handlers of MongoLog:                      *)
(*   BufferedMongoLog            (one connection per flush)                *)
(*   PersistentBufferedMongoLog  (one connection for the handler's life)   *)
(* Both derive from logging.handlers.MemoryHandler: a record reaches the   *)
(* handler through Handler.handle, which takes the handler's re-entrant    *)
(* lock, calls emit (append, shouldFlush, flush) and releases the lock.    *)
(* Threads interleave between the steps below; the transport (pymongo) is  *)
(* the environment and answers every bulk_write with one of its outcomes.  *)
(* close() ends the handler's life: the persistent class overrides it,     *)
(* the other inherits MemoryHandler.close.  A second specification,        *)
(* SpecCreate, has several handlers constructed against one database, the  *)
(* steps of their _create_collection calls interleaved.                    *)
(***************************************************************************)
EXTENDS Integers, Sequences, FiniteSets, TLC

\* ---- bounds of the model
\* threads; calls of handle(), flush() and close() together; largest capacity;
\* documents the transport may write without confirming them (lost
\* acknowledgements)
NumThreads == 2
MaxOps == 3
MaxCapacity == 3
MaxUnconfirmed == 1
\* handlers constructed against one database and collection name
NumHandlers == 2

\* ---- program constants
\* logging.ERROR, the default flushLevel; logging.DEBUG, a level below it
ERROR == 40
DEBUG == 10

Threads == 1..NumThreads
NoThread == 0
Levels == {DEBUG, ERROR}
Variants == {"Buffered", "Persistent"}
Handlers == 1..NumHandlers
\* the handler classes: those that connect per operation (with Mongo(...)) and
\* those that keep self.client
ScopedClasses == {"SimpleMongoLog", "BufferedMongoLog"}
PersistentClasses == {"PersistentMongoLog", "PersistentBufferedMongoLog"}
Classes == ScopedClasses \cup PersistentClasses
NoRec == [id |-> 0, levelno |-> 0]
\* what the transport can answer to a bulk_write: a full success, a BulkWriteError
\* with its count, a ConnectionFailure, a result of an unacknowledged write, any
\* other error, and a result that counts more documents than the batch held
Outcomes == {"ok", "BulkWriteError", "ConnectionFailure", "Unacknowledged",
             "OperationFailure", "OverCount"}

VARIABLES
    variant,      \* which handler class this instance is
    capacity,     \* MemoryHandler.capacity
    buffer,       \* MemoryHandler.buffer: the buffered records, each named by its id
    lockOwner,    \* the thread holding Handler.lock (an RLock), or NoThread
    lockCount,    \* the RLock's recursion depth
    pc,           \* each thread's position
    rec,          \* the record a thread is emitting
    caller,       \* who called the flush a thread runs: "emit", "user", "close"
                  \* (the flush of MemoryHandler.close), "close2" (the flush of
                  \* BufferingHandler.close), or "none"
    entry,        \* what a flush saw when it took the lock
    batch,        \* the requests handed to bulk_write
    res,          \* the transport's answer: outcome and count
    exc,          \* the exception propagating out of flush, "none" if none
    store,        \* the documents in the collection (record ids), in insertion order
    clients,      \* open MongoClient connections
    io,           \* what a flush did to the transport: clients opened, writes submitted
    created,      \* records handed to handle() so far
    trigFlushes,  \* flush() calls made by emit so far (kept while the history is plain)
    userFlushes,  \* flush() calls made directly so far
    failed,       \* transport attempts since the last full success that did not
                  \* confirm their whole batch
    plain,        \* so far every record was below flushLevel, every transport
                  \* attempt fully succeeded and flush() was never called directly
    lostAck,      \* some transport attempt wrote documents it did not confirm
    closed,       \* close() has been called on the handler
    hpc,          \* each handler's position in its construction
    hclass,       \* each handler's class
    herr,         \* the error raised by a handler's construction, "none" if none
    hclient,      \* whether a client of the handler's construction is open
    collExists,   \* whether the database has a collection of the configured name
    createCalls,  \* calls of db.create_collection so far
    healthy       \* the transport has recovered: from now on every bulk_write
                  \* fully succeeds

vars == <<variant, capacity, buffer, lockOwner, lockCount, pc, rec, caller, entry,
          batch, res, exc, store, clients, io, created, trigFlushes,
          userFlushes, failed, plain, lostAck, closed,
          hpc, hclass, herr, hclient, collExists, createCalls, healthy>>

config == <<variant, capacity>>
lock == <<lockOwner, lockCount>>
locals == <<rec, caller, entry, batch, res, exc, io>>
transport == <<store, clients>>
history == <<created, trigFlushes, userFlushes, failed, plain, lostAck>>
construction == <<hpc, hclass, herr, hclient, collExists, createCalls>>
handler == <<config, buffer, lock, pc, locals, transport, history, closed, healthy>>

NoEntry == [buf |-> <<>>, depth |-> 0, store |-> <<>>, clients |-> 0]
NoIo == [opened |-> 0, writes |-> 0]
NoRes == [outcome |-> "none", n |-> 0]

\* flushLevel=logging.ERROR
flushLevel == ERROR

Min(a, b) == IF a < b THEN a ELSE b

Prefix(s, n) == SubSeq(s, 1, Min(n, Len(s)))

\* mutant: the slice taken at the wrong end, self.buffer[-n:] = []
DrainSuffix(buf, n) == SubSeq(buf, 1, Len(buf) - Min(n, Len(buf)))

\* mutant: the slice one short, self.buffer[:n - 1] = []
DrainOneShort(buf, n) ==
    SubSeq(buf, Min(IF n > 0 THEN n - 1 ELSE 0, Len(buf)) + 1, Len(buf))

\* mutant: the slice one long, self.buffer[:n + 1] = []
DrainOneMore(buf, n) == SubSeq(buf, Min(n + 1, Len(buf)) + 1, Len(buf))

\* self.buffer[:n] = []  (a slice assignment: n beyond the end is clamped)
DrainPrefix(buf, n) == SubSeq(buf, Min(n, Len(buf)) + 1, Len(buf))

\* MemoryHandler.shouldFlush
shouldFlush(buf, record) ==
    (Len(buf) >= capacity) \/ (record.levelno >= flushLevel)

\* the depth at which thread t holds the lock
LockDepth(t) == IF lockOwner = t THEN lockCount ELSE 0

\* records appended to the buffer so far
Appended == created - Cardinality({t \in Threads : pc[t] \in {"handle", "emit"}})

\* documents in the store that no flush has removed from the buffer
\* (read while no drain is pending)
Unconfirmed == Len(store) - (Appended - Len(buffer))

\* RLock.acquire can proceed for t
CanAcquire(t) == lockOwner = NoThread \/ lockOwner = t

\* where control goes once the with-block of flush has been left
AfterWith(outcome) ==
    CASE outcome = "ok" -> "drain"
      [] outcome = "Unacknowledged" -> "drain"
      [] outcome = "OverCount" -> "drain"
      [] outcome = "BulkWriteError" -> "except_bwe"
      [] outcome = "ConnectionFailure" -> "except_cf"
      [] OTHER -> "flush_finally"

\* the construction of the handlers is over
Constructed ==
    /\ hpc = [h \in Handlers |-> "done"]
    /\ hclass = [h \in Handlers |-> "BufferedMongoLog"]
    /\ herr = [h \in Handlers |-> "none"]
    /\ hclient = [h \in Handlers |-> FALSE]
    /\ collExists = TRUE
    /\ createCalls = 0

Init ==
    /\ Constructed
    /\ variant \in Variants
    /\ capacity \in 1..MaxCapacity
    /\ buffer = <<>>
    /\ lockOwner = NoThread
    /\ lockCount = 0
    /\ pc = [t \in Threads |-> "idle"]
    /\ rec = [t \in Threads |-> NoRec]
    /\ caller = [t \in Threads |-> "none"]
    /\ entry = [t \in Threads |-> NoEntry]
    /\ batch = [t \in Threads |-> <<>>]
    /\ res = [t \in Threads |-> NoRes]
    /\ exc = [t \in Threads |-> "none"]
    /\ io = [t \in Threads |-> NoIo]
    /\ store = <<>>
    /\ clients = IF variant = "Persistent" THEN 1 ELSE 0
    /\ created = 0
    /\ trigFlushes = 0
    /\ userFlushes = 0
    /\ failed = 0
    /\ plain = TRUE
    /\ lostAck = FALSE
    /\ closed = FALSE
    /\ healthy = FALSE

\* a thread logs: the record is handed to Handler.handle
Log(t) ==
    /\ pc[t] = "idle"
    /\ ~closed
    /\ created + userFlushes < MaxOps
    /\ created' = created + 1
    /\ pc' = [pc EXCEPT ![t] = "handle"]
    /\ UNCHANGED <<construction, healthy, config, closed, buffer, lock, locals,
                   transport, trigFlushes, userFlushes, failed, plain, lostAck>>

\* Handler.handle: self.acquire()
HandleAcquire(t) ==
    /\ pc[t] = "handle"
    /\ CanAcquire(t)
    /\ lockOwner' = t
    /\ lockCount' = lockCount + 1
    /\ pc' = [pc EXCEPT ![t] = "emit"]
    /\ UNCHANGED <<construction, healthy, config, closed, buffer, locals, transport,
                   history>>

\* BufferingHandler.emit: append, then flush if shouldFlush
\* (the record's id is its place in the order of the appends; its level, which
\* emit is the first to read, is drawn here)
Emit(t, lvl) ==
    /\ pc[t] = "emit"
    /\ rec' = [rec EXCEPT ![t] = [id |-> Appended + 1, levelno |-> lvl]]
    /\ plain' = (plain /\ lvl < flushLevel)
    /\ buffer' = Append(buffer, rec'[t].id)
    /\ IF shouldFlush(buffer', rec'[t])
       THEN /\ pc' = [pc EXCEPT ![t] = "flush"]
            /\ caller' = [caller EXCEPT ![t] = "emit"]
            /\ trigFlushes' = IF plain' THEN trigFlushes + 1 ELSE 0
       ELSE /\ pc' = [pc EXCEPT ![t] = "handle_release"]
            /\ trigFlushes' = IF plain' THEN trigFlushes ELSE 0
            /\ UNCHANGED caller
    /\ UNCHANGED <<construction, healthy, config, closed, lock, entry, batch, res, exc,
                   io, transport, created, userFlushes, failed, lostAck>>

\* a thread calls handler.flush() itself
CallFlush(t) ==
    /\ pc[t] = "idle"
    /\ ~closed
    /\ created + userFlushes < MaxOps
    /\ userFlushes' = userFlushes + 1
    /\ plain' = FALSE
    /\ trigFlushes' = 0
    /\ caller' = [caller EXCEPT ![t] = "user"]
    /\ pc' = [pc EXCEPT ![t] = "flush"]
    /\ UNCHANGED <<construction, healthy, config, closed, buffer, lock, rec, entry,
                   batch, res, exc, io, transport, created, failed, lostAck>>

\* mutant: flush enters without waiting for the lock
FlushAcquireNoBlock(t) ==
    /\ pc[t] = "flush"
    /\ entry' = [entry EXCEPT ![t] = [buf |-> buffer, depth |-> LockDepth(t),
                                      store |-> store, clients |-> clients]]
    /\ lockOwner' = t
    /\ lockCount' = lockCount + 1
    /\ pc' = [pc EXCEPT ![t] = "flush_check"]
    /\ UNCHANGED <<construction, healthy, config, closed, buffer, rec, caller, batch,
                   res, exc, io, transport, history>>

\* flush: self.acquire()
FlushAcquire(t) ==
    /\ pc[t] = "flush"
    /\ CanAcquire(t)
    /\ entry' = [entry EXCEPT ![t] = [buf |-> buffer, depth |-> LockDepth(t),
                                      store |-> store, clients |-> clients]]
    /\ lockOwner' = t
    /\ lockCount' = lockCount + 1
    /\ pc' = [pc EXCEPT ![t] = "flush_check"]
    /\ UNCHANGED <<construction, healthy, config, closed, buffer, rec, caller, batch,
                   res, exc, io, transport, history>>

\* mutant: flush without the early return on an empty buffer
FlushCheckNoReturn(t) ==
    /\ pc[t] = "flush_check"
    /\ pc' = [pc EXCEPT ![t] = IF variant = "Buffered" THEN "connect" ELSE "bulk_write"]
    /\ UNCHANGED <<construction, healthy, config, closed, buffer, lock, locals,
                   transport, history>>

\* flush: if not self.buffer: return
FlushCheck(t) ==
    /\ pc[t] = "flush_check"
    /\ pc' = [pc EXCEPT ![t] =
                IF buffer = <<>> THEN "flush_finally"
                ELSE IF variant = "Buffered" THEN "connect" ELSE "bulk_write"]
    /\ UNCHANGED <<construction, healthy, config, closed, buffer, lock, locals,
                   transport, history>>

\* BufferedMongoLog.flush: with Mongo(**self.kwargs) as mongo
\* (MongoClient(**kwargs) creates the client without contacting the server: an
\* unreachable server shows as the ConnectionFailure of the first operation)
MongoEnter(t) ==
    /\ pc[t] = "connect"
    /\ clients' = clients + 1
    /\ io' = [io EXCEPT ![t].opened = @ + 1]
    /\ pc' = [pc EXCEPT ![t] = "bulk_write"]
    /\ UNCHANGED <<construction, healthy, config, closed, buffer, lock, rec, caller,
                   entry, batch, res, exc, store, history>>

\* mutant: the lock is dropped while the transport call is in flight
BulkWriteUnlocked(t) ==
    /\ pc[t] = "bulk_write"
    /\ batch' = [batch EXCEPT ![t] = buffer]
    /\ io' = [io EXCEPT ![t].writes = @ + 1]
    /\ lockOwner' = NoThread
    /\ pc' = [pc EXCEPT ![t] = "writing"]
    /\ UNCHANGED <<construction, healthy, config, closed, buffer, lockCount, rec,
                   caller, entry, res, exc, transport, history>>

\* mutant: only the triggering record is submitted
BulkWriteLastOnly(t) ==
    /\ pc[t] = "bulk_write"
    /\ batch' = [batch EXCEPT ![t] = <<buffer[Len(buffer)]>>]
    /\ io' = [io EXCEPT ![t].writes = @ + 1]
    /\ pc' = [pc EXCEPT ![t] = "writing"]
    /\ UNCHANGED <<construction, healthy, config, closed, buffer, lock, rec, caller,
                   entry, res, exc, transport, history>>

\* mutant: the batch is built newest record first
BulkWriteNewestFirst(t) ==
    /\ pc[t] = "bulk_write"
    /\ batch' = [batch EXCEPT ![t] =
                   [i \in 1..Len(buffer) |-> buffer[Len(buffer) + 1 - i]]]
    /\ io' = [io EXCEPT ![t].writes = @ + 1]
    /\ pc' = [pc EXCEPT ![t] = "writing"]
    /\ UNCHANGED <<construction, healthy, config, closed, buffer, lock, rec, caller,
                   entry, res, exc, transport, history>>

\* flush: bulk_write([InsertOne(...) for record in self.buffer], ordered=True)
BulkWrite(t) ==
    /\ pc[t] = "bulk_write"
    /\ batch' = [batch EXCEPT ![t] = buffer]
    /\ io' = [io EXCEPT ![t].writes = @ + 1]
    /\ pc' = [pc EXCEPT ![t] = "writing"]
    /\ UNCHANGED <<construction, healthy, config, closed, buffer, lock, rec, caller,
                   entry, res, exc, transport, history>>

\* mutant: the with-block is not left before the drain: the client stays open
WriteResultNoExit(t, outcome, k) ==
    /\ pc[t] = "writing"
    /\ k \in 0..Len(batch[t])
    /\ outcome = "ok" => k = Len(batch[t])
    /\ outcome = "BulkWriteError" => k < Len(batch[t])
    /\ outcome = "Unacknowledged" => k \in {0, Len(batch[t])}
    /\ outcome = "OperationFailure" => k = 0
    /\ outcome = "OverCount" => k = Len(batch[t])
    /\ healthy => outcome = "ok"
    /\ outcome \in {"ConnectionFailure", "Unacknowledged"} =>
            (k = 0 \/ Unconfirmed + k <= MaxUnconfirmed)
    /\ store' = store \o Prefix(batch[t], k)
    /\ res' = [res EXCEPT ![t] =
                 [outcome |-> outcome,
                  n |-> CASE outcome \in {"ok", "BulkWriteError"} -> k
                          [] outcome = "OverCount" -> k + 1
                          [] OTHER -> 0]]
    /\ failed' = IF outcome = "ok" THEN failed ELSE failed + 1
    /\ plain' = (plain /\ outcome = "ok")
    /\ trigFlushes' = IF plain' THEN trigFlushes ELSE 0
    /\ lostAck' = (lostAck \/ (outcome \in {"ConnectionFailure", "Unacknowledged"} /\ k > 0))
    /\ exc' = [exc EXCEPT ![t] =
                 IF outcome = "OperationFailure" THEN "OperationFailure" ELSE "none"]
    /\ pc' = [pc EXCEPT ![t] = AfterWith(outcome)]
    /\ UNCHANGED <<construction, healthy, config, closed, buffer, lock, rec, caller,
                   entry, batch, io, clients, created, userFlushes>>

\* the transport answers: k documents of the batch were inserted, in order
WriteResult(t, outcome, k) ==
    /\ pc[t] = "writing"
    /\ k \in 0..Len(batch[t])
    /\ outcome = "ok" => k = Len(batch[t])
    /\ outcome = "BulkWriteError" => k < Len(batch[t])
    /\ outcome = "Unacknowledged" => k \in {0, Len(batch[t])}
    /\ outcome = "OperationFailure" => k = 0
    /\ outcome = "OverCount" => k = Len(batch[t])
    /\ healthy => outcome = "ok"
    /\ outcome \in {"ConnectionFailure", "Unacknowledged"} =>
            (k = 0 \/ Unconfirmed + k <= MaxUnconfirmed)
    /\ store' = store \o Prefix(batch[t], k)
    /\ res' = [res EXCEPT ![t] =
                 [outcome |-> outcome,
                  n |-> CASE outcome \in {"ok", "BulkWriteError"} -> k
                          [] outcome = "OverCount" -> k + 1
                          [] OTHER -> 0]]
    /\ failed' = IF outcome = "ok" THEN failed ELSE failed + 1
    /\ plain' = (plain /\ outcome = "ok")
    /\ trigFlushes' = IF plain' THEN trigFlushes ELSE 0
    /\ lostAck' = (lostAck \/ (outcome \in {"ConnectionFailure", "Unacknowledged"} /\ k > 0))
    /\ exc' = [exc EXCEPT ![t] =
                 IF outcome = "OperationFailure" THEN "OperationFailure" ELSE "none"]
    /\ pc' = [pc EXCEPT ![t] =
                IF variant = "Buffered" THEN "with_exit" ELSE AfterWith(outcome)]
    /\ UNCHANGED <<construction, healthy, config, closed, buffer, lock, rec, caller,
                   entry, batch, io, clients, created, userFlushes>>

\* mutant: client.close() after the yield and not in a finally clause, skipped
\* when the with-block is left by an exception
MongoExitNoFinally(t) ==
    /\ pc[t] = "with_exit"
    /\ clients' = IF res[t].outcome \in {"ok", "Unacknowledged", "OverCount"}
                  THEN clients - 1 ELSE clients
    /\ pc' = [pc EXCEPT ![t] = AfterWith(res[t].outcome)]
    /\ UNCHANGED <<construction, healthy, config, closed, buffer, lock, locals, store,
                   history>>

\* Mongo: finally: client.close()
MongoExit(t) ==
    /\ pc[t] = "with_exit"
    /\ clients' = clients - 1
    /\ pc' = [pc EXCEPT ![t] = AfterWith(res[t].outcome)]
    /\ UNCHANGED <<construction, healthy, config, closed, buffer, lock, locals, store,
                   history>>

\* mutant: the inserted records are left in the buffer
DrainNothing(t) ==
    /\ pc[t] = "drain"
    /\ IF res[t].outcome = "Unacknowledged"
       THEN /\ exc' = [exc EXCEPT ![t] = "InvalidOperation"]
            /\ UNCHANGED failed
       ELSE /\ failed' = 0
            /\ UNCHANGED exc
    /\ pc' = [pc EXCEPT ![t] = "flush_finally"]
    /\ UNCHANGED <<construction, healthy, config, closed, buffer, lock, rec, caller,
                   entry, batch, res, io, transport, created, trigFlushes, userFlushes,
                   plain, lostAck>>

\* flush: self.buffer[:bulk_result.inserted_count] = []
\* (inserted_count of an unacknowledged result raises InvalidOperation)
Drain(t) ==
    /\ pc[t] = "drain"
    /\ IF res[t].outcome = "Unacknowledged"
       THEN /\ exc' = [exc EXCEPT ![t] = "InvalidOperation"]
            /\ UNCHANGED <<buffer, failed>>
       ELSE /\ buffer' = DrainPrefix(buffer, res[t].n)
            /\ failed' = 0
            /\ UNCHANGED exc
    /\ pc' = [pc EXCEPT ![t] = "flush_finally"]
    /\ UNCHANGED <<construction, healthy, config, closed, lock, rec, caller, entry,
                   batch, res, io, transport, created, trigFlushes, userFlushes, plain,
                   lostAck>>

\* mutant: a bulk-write error removes nothing
ExceptBulkWriteErrorKeep(t) ==
    /\ pc[t] = "except_bwe"
    /\ pc' = [pc EXCEPT ![t] = "flush_finally"]
    /\ UNCHANGED <<construction, healthy, config, closed, buffer, lock, locals,
                   transport, history>>

\* mutant: a bulk-write error empties the buffer
ExceptBulkWriteErrorClear(t) ==
    /\ pc[t] = "except_bwe"
    /\ buffer' = <<>>
    /\ pc' = [pc EXCEPT ![t] = "flush_finally"]
    /\ UNCHANGED <<construction, healthy, config, closed, lock, locals, transport,
                   history>>

\* flush: except BulkWriteError: self.buffer[:bwe.details.get('nInserted', 0)] = []
ExceptBulkWriteError(t) ==
    /\ pc[t] = "except_bwe"
    /\ buffer' = DrainPrefix(buffer, res[t].n)
    /\ pc' = [pc EXCEPT ![t] = "flush_finally"]
    /\ UNCHANGED <<construction, healthy, config, closed, lock, locals, transport,
                   history>>

\* mutant: a connection failure empties the buffer
ExceptConnectionFailureClear(t) ==
    /\ pc[t] = "except_cf"
    /\ buffer' = <<>>
    /\ pc' = [pc EXCEPT ![t] = "flush_finally"]
    /\ UNCHANGED <<construction, healthy, config, closed, lock, locals, transport,
                   history>>

\* flush: except ConnectionFailure: pass
ExceptConnectionFailure(t) ==
    /\ pc[t] = "except_cf"
    /\ pc' = [pc EXCEPT ![t] = "flush_finally"]
    /\ UNCHANGED <<construction, healthy, config, closed, buffer, lock, locals,
                   transport, history>>

\* flush returns (or raises) to its caller: to emit inside handle, to the
\* thread that called it, which is idle again, or into close(), whose finally
\* clause runs also when its first flush raised
FlushReturn(t) ==
    /\ pc' = [pc EXCEPT ![t] =
                CASE caller[t] = "emit" -> "handle_release"
                  [] caller[t] = "close" -> "close_acquire"
                  [] caller[t] = "close2" -> "close_release"
                  [] OTHER -> "idle"]
    /\ IF caller[t] \in {"emit", "close2"}
       THEN UNCHANGED <<caller, entry, batch, res, io, exc>>
       ELSE /\ caller' = [caller EXCEPT ![t] =
                            IF caller[t] = "close" THEN "close" ELSE "none"]
            /\ entry' = [entry EXCEPT ![t] = NoEntry]
            /\ batch' = [batch EXCEPT ![t] = <<>>]
            /\ res' = [res EXCEPT ![t] = NoRes]
            /\ io' = [io EXCEPT ![t] = NoIo]
            /\ exc' = [exc EXCEPT ![t] = "none"]
    /\ UNCHANGED rec

\* mutant: release() at the end of the try body, skipped when an error propagates
FlushReleaseInTry(t) ==
    /\ pc[t] = "flush_finally"
    /\ IF exc[t] = "none"
       THEN /\ lockCount' = lockCount - 1
            /\ lockOwner' = IF lockCount = 1 THEN NoThread ELSE lockOwner
       ELSE UNCHANGED lock
    /\ FlushReturn(t)
    /\ UNCHANGED <<construction, healthy, config, closed, buffer, transport, history>>

\* mutant: flush returns without releasing the lock
FlushFinallyKeepsLock(t) ==
    /\ pc[t] = "flush_finally"
    /\ FlushReturn(t)
    /\ UNCHANGED <<construction, healthy, config, closed, buffer, lock, transport,
                   history>>

\* flush: finally: self.release(), and the return to the caller
FlushFinally(t) ==
    /\ pc[t] = "flush_finally"
    /\ lockCount' = lockCount - 1
    /\ lockOwner' = IF lockCount = 1 THEN NoThread ELSE lockOwner
    /\ FlushReturn(t)
    /\ UNCHANGED <<construction, healthy, config, closed, buffer, transport, history>>

\* Handler.handle: finally: self.release()
HandleRelease(t) ==
    /\ pc[t] = "handle_release"
    /\ lockCount' = lockCount - 1
    /\ lockOwner' = IF lockCount = 1 THEN NoThread ELSE lockOwner
    /\ pc' = [pc EXCEPT ![t] = "idle"]
    /\ rec' = [rec EXCEPT ![t] = NoRec]
    /\ caller' = [caller EXCEPT ![t] = "none"]
    /\ entry' = [entry EXCEPT ![t] = NoEntry]
    /\ batch' = [batch EXCEPT ![t] = <<>>]
    /\ res' = [res EXCEPT ![t] = NoRes]
    /\ io' = [io EXCEPT ![t] = NoIo]
    /\ exc' = [exc EXCEPT ![t] = "none"]
    /\ UNCHANGED <<construction, healthy, config, closed, buffer, transport, history>>

\* mutant: close() of the persistent handler flushes what is buffered
ClosePersistentFlushing(t) ==
    /\ pc[t] = "idle"
    /\ ~closed
    /\ variant = "Persistent"
    /\ created + userFlushes < MaxOps
    /\ store' = store \o buffer
    /\ buffer' = <<>>
    /\ clients' = 0
    /\ closed' = TRUE
    /\ UNCHANGED <<construction, healthy, config, lock, pc, locals, history>>

\* PersistentBufferedMongoLog.close: self.client.close()
\* (no lock is taken and the close() of the base classes is not called)
ClosePersistent(t) ==
    /\ pc[t] = "idle"
    /\ ~closed
    /\ variant = "Persistent"
    /\ created + userFlushes < MaxOps
    /\ clients' = 0
    /\ closed' = TRUE
    /\ UNCHANGED <<construction, healthy, config, buffer, lock, pc, locals, store,
                   history>>

\* mutant: close() without a flush (flushOnClose off, no flush in the base close)
CloseBufferedNoFlush(t) ==
    /\ pc[t] = "idle"
    /\ ~closed
    /\ variant = "Buffered"
    /\ created + userFlushes < MaxOps
    /\ CanAcquire(t)
    /\ closed' = TRUE
    /\ plain' = FALSE
    /\ trigFlushes' = 0
    /\ lockOwner' = t
    /\ lockCount' = lockCount + 1
    /\ caller' = [caller EXCEPT ![t] = "close2"]
    /\ pc' = [pc EXCEPT ![t] = "close_release"]
    /\ UNCHANGED <<construction, healthy, config, buffer, rec, entry, batch, res, exc,
                   io, transport, created, userFlushes, failed, lostAck>>

\* BufferedMongoLog defines no close(): MemoryHandler.close runs,
\*   try: if self.flushOnClose: self.flush()      (flushOnClose is left True)
CloseBuffered(t) ==
    /\ pc[t] = "idle"
    /\ ~closed
    /\ variant = "Buffered"
    /\ created + userFlushes < MaxOps
    /\ closed' = TRUE
    /\ plain' = FALSE
    /\ trigFlushes' = 0
    /\ caller' = [caller EXCEPT ![t] = "close"]
    /\ pc' = [pc EXCEPT ![t] = "flush"]
    /\ UNCHANGED <<construction, healthy, config, buffer, lock, rec, entry, batch, res,
                   exc, io, transport, created, userFlushes, failed, lostAck>>

\* MemoryHandler.close:  finally: self.acquire(); BufferingHandler.close(self),
\* which calls self.flush() once more
CloseAcquire(t) ==
    /\ pc[t] = "close_acquire"
    /\ CanAcquire(t)
    /\ lockOwner' = t
    /\ lockCount' = lockCount + 1
    /\ caller' = [caller EXCEPT ![t] = "close2"]
    /\ pc' = [pc EXCEPT ![t] = "flush"]
    /\ UNCHANGED <<construction, healthy, config, closed, buffer, rec, entry, batch,
                   res, exc, io, transport, history>>

\* MemoryHandler.close:  finally: self.release()
CloseRelease(t) ==
    /\ pc[t] = "close_release"
    /\ lockCount' = lockCount - 1
    /\ lockOwner' = IF lockCount = 1 THEN NoThread ELSE lockOwner
    /\ pc' = [pc EXCEPT ![t] = "idle"]
    /\ caller' = [caller EXCEPT ![t] = "none"]
    /\ entry' = [entry EXCEPT ![t] = NoEntry]
    /\ batch' = [batch EXCEPT ![t] = <<>>]
    /\ res' = [res EXCEPT ![t] = NoRes]
    /\ io' = [io EXCEPT ![t] = NoIo]
    /\ exc' = [exc EXCEPT ![t] = "none"]
    /\ UNCHANGED <<construction, healthy, config, closed, buffer, rec, transport,
                   history>>

Next ==
    \/ \E t \in Threads : Log(t)
    \/ \E t \in Threads : HandleAcquire(t)
    \/ \E t \in Threads, lvl \in Levels : Emit(t, lvl)
    \/ \E t \in Threads : CallFlush(t)
    \/ \E t \in Threads : FlushAcquire(t)
    \/ \E t \in Threads : FlushCheck(t)
    \/ \E t \in Threads : MongoEnter(t)
    \/ \E t \in Threads : BulkWrite(t)
    \/ \E t \in Threads, outcome \in Outcomes, k \in 0..MaxOps : WriteResult(t, outcome, k)
    \/ \E t \in Threads : MongoExit(t)
    \/ \E t \in Threads : Drain(t)
    \/ \E t \in Threads : ExceptBulkWriteError(t)
    \/ \E t \in Threads : ExceptConnectionFailure(t)
    \/ \E t \in Threads : FlushFinally(t)
    \/ \E t \in Threads : HandleRelease(t)
    \/ \E t \in Threads : ClosePersistent(t)
    \/ \E t \in Threads : CloseBuffered(t)
    \/ \E t \in Threads : CloseAcquire(t)
    \/ \E t \in Threads : CloseRelease(t)

Spec == Init /\ [][Next]_vars

\* ---------------------------------------------------------------- recovery
\* The transport recovers at some moment and stays well; the threads keep
\* running and the transport answers every call.

\* the environment: the server is reachable again, for good
Recover ==
    /\ ~healthy
    /\ healthy' = TRUE
    /\ UNCHANGED <<construction, config, closed, buffer, lock, pc, locals, transport,
                   history>>

\* the steps of thread t that the scheduler and the transport take for it: what
\* follows a call of handle(), flush() or close(), not the call itself
Run(t) ==
    \/ HandleAcquire(t)
    \/ \E lvl \in Levels : Emit(t, lvl)
    \/ FlushAcquire(t)
    \/ FlushCheck(t)
    \/ MongoEnter(t)
    \/ BulkWrite(t)
    \/ \E outcome \in Outcomes, k \in 0..MaxOps : WriteResult(t, outcome, k)
    \/ MongoExit(t)
    \/ Drain(t)
    \/ ExceptBulkWriteError(t)
    \/ ExceptConnectionFailure(t)
    \/ FlushFinally(t)
    \/ HandleRelease(t)
    \/ CloseAcquire(t)
    \/ CloseRelease(t)

NextLive == Next \/ Recover

\* every thread that can take a step is scheduled eventually, and a pending
\* bulk_write is answered (the driver's timeouts bound every call)
SpecLive == Init /\ [][NextLive]_vars /\ \A t \in Threads : WF_vars(Run(t))

\* ---------------------------------------------------------------- construction
\* Several handlers are constructed against one database; the steps of their
\* _create_collection calls interleave (threads or processes).

\* __init__: the class, the create_collection argument; the persistent classes
\* connect (self._connect), the others enter with Mongo(**kwargs) in
\* _create_collection
Construct(h, cls, create_collection) ==
    /\ hpc[h] = "new"
    /\ hclass' = [hclass EXCEPT ![h] = cls]
    /\ hclient' = [hclient EXCEPT ![h] = (cls \in PersistentClasses \/ create_collection)]
    /\ hpc' = [hpc EXCEPT ![h] = IF create_collection THEN "list" ELSE "done"]
    /\ UNCHANGED <<handler, herr, collExists, createCalls>>

\* _create_collection: if self.collection not in db.list_collection_names()
\* (a ConnectionFailure is caught: pass)
ListCollectionNames(h, ok) ==
    /\ hpc[h] = "list"
    /\ hpc' = [hpc EXCEPT ![h] = IF ok /\ ~collExists THEN "create" ELSE "exit"]
    /\ UNCHANGED <<handler, hclass, herr, hclient, collExists, createCalls>>

\* _create_collection: db.create_collection(name=self.collection, ...)
\* (a ConnectionFailure is caught: pass; for a name that exists by now
\* create_collection raises CollectionInvalid, which no clause catches)
CreateCollection(h, ok) ==
    /\ hpc[h] = "create"
    /\ createCalls' = createCalls + 1
    /\ hpc' = [hpc EXCEPT ![h] = "exit"]
    /\ IF ~ok
       THEN UNCHANGED <<herr, collExists>>
       ELSE IF collExists
            THEN herr' = [herr EXCEPT ![h] = "CollectionInvalid"] /\ UNCHANGED collExists
            ELSE collExists' = TRUE /\ UNCHANGED herr
    /\ UNCHANGED <<handler, hclass, hclient>>

\* the end of _create_collection: Mongo's finally: client.close() in the classes
\* that connect per operation; __init__ returns or raises
CreateExit(h) ==
    /\ hpc[h] = "exit"
    /\ hclient' = [hclient EXCEPT ![h] = (hclass[h] \in PersistentClasses)]
    /\ hpc' = [hpc EXCEPT ![h] = IF herr[h] = "none" THEN "done" ELSE "raised"]
    /\ UNCHANGED <<handler, hclass, herr, collExists, createCalls>>

\* no handler exists yet; the collection may exist already
InitCreate ==
    /\ hpc = [h \in Handlers |-> "new"]
    /\ hclass = [h \in Handlers |-> "BufferedMongoLog"]
    /\ herr = [h \in Handlers |-> "none"]
    /\ hclient = [h \in Handlers |-> FALSE]
    /\ collExists \in BOOLEAN
    /\ createCalls = 0
    /\ variant = "Buffered"
    /\ capacity = 1
    /\ buffer = <<>>
    /\ lockOwner = NoThread
    /\ lockCount = 0
    /\ pc = [t \in Threads |-> "idle"]
    /\ rec = [t \in Threads |-> NoRec]
    /\ caller = [t \in Threads |-> "none"]
    /\ entry = [t \in Threads |-> NoEntry]
    /\ batch = [t \in Threads |-> <<>>]
    /\ res = [t \in Threads |-> NoRes]
    /\ exc = [t \in Threads |-> "none"]
    /\ io = [t \in Threads |-> NoIo]
    /\ store = <<>>
    /\ clients = 0
    /\ created = 0
    /\ trigFlushes = 0
    /\ userFlushes = 0
    /\ failed = 0
    /\ plain = TRUE
    /\ lostAck = FALSE
    /\ closed = FALSE
    /\ healthy = FALSE

NextCreate ==
    \/ \E h \in Handlers, cls \in Classes, cc \in BOOLEAN : Construct(h, cls, cc)
    \/ \E h \in Handlers, ok \in BOOLEAN : ListCollectionNames(h, ok)
    \/ \E h \in Handlers, ok \in BOOLEAN : CreateCollection(h, ok)
    \/ \E h \in Handlers : CreateExit(h)

SpecCreate == InitCreate /\ [][NextCreate]_vars

\* ---------------------------------------------------------------- claims

\* thread t is inside flush, between its lock acquisition and its release
InFlush(t) ==
    pc[t] \in {"flush_check", "connect", "bulk_write", "writing", "with_exit",
               "drain", "except_bwe", "except_cf", "flush_finally"}

\* thread t has handed its batch to the transport and has not yet drained
Submitted(t) ==
    /\ pc[t] \in {"writing", "with_exit", "drain", "except_bwe", "except_cf"}
    /\ io[t].writes > 0

\* C1: at most one flush is between its lock acquisition and its lock release;
\* two threads are never inside flush at once, also while a transport call is
\* in flight.
AtMostOneFlush ==
    \A t, u \in Threads : (InFlush(t) /\ InFlush(u)) => t = u

\* one flush waits in the transport while another thread's flush waits for the lock
AtMostOneFlushWitness ==
    \E t, u \in Threads : t # u /\ pc[t] = "writing" /\ pc[u] = "flush"

\* C2: from the moment a flush has built its batch until it has drained, the
\* buffer is exactly that batch and no other thread is appending: an emission
\* of another thread waits for the lock.
AppendFlushExclusive ==
    \A t \in Threads :
        Submitted(t) =>
            /\ buffer = batch[t]
            /\ lockOwner = t
            /\ \A u \in Threads \ {t} : pc[u] \notin {"emit", "handle_release"}

\* an emission waits for the lock while a flush is in the transport
AppendFlushExclusiveWitness ==
    \E t, u \in Threads : t # u /\ pc[t] = "writing" /\ pc[u] = "handle"

\* C3: a flush of a non-empty buffer B whose transport confirms K records
\* (full success, or a bulk-write error reporting K inserted) leaves exactly B
\* without its first K records, the rest in their order.
ConfirmedPrefixRemoved ==
    \A t \in Threads :
        (pc[t] = "flush_finally" /\ res[t].outcome \in {"ok", "BulkWriteError"}) =>
            LET B == entry[t].buf
                K == res[t].n
            IN  /\ B # <<>>
                /\ K <= Len(B)
                /\ res[t].outcome = "ok" => K = Len(B)
                /\ Len(buffer) = Len(B) - K
                /\ \A i \in 1..Len(buffer) : buffer[i] = B[K + i]

\* a batch of 3 of which 1 is confirmed leaves the last 2
ConfirmedPrefixRemovedWitness ==
    \E t \in Threads :
        /\ pc[t] = "flush_finally"
        /\ res[t].outcome = "BulkWriteError"
        /\ Len(entry[t].buf) = 3
        /\ res[t].n = 1
        /\ buffer = SubSeq(entry[t].buf, 2, 3)

\* C4: a flush that fails with a connection failure removes nothing: the
\* buffer after it is the buffer before it.
ConnectionFailureKeepsBuffer ==
    \A t \in Threads :
        (pc[t] = "flush_finally" /\ res[t].outcome = "ConnectionFailure") =>
            buffer = entry[t].buf

\* a flush of several records that lost its connection during the write
ConnectionFailureKeepsBufferWitness ==
    \E t \in Threads :
        /\ pc[t] = "flush_finally"
        /\ res[t].outcome = "ConnectionFailure"
        /\ io[t].writes = 1
        /\ Len(buffer) >= 2

\* C5: flush() never raises past its own boundary: whatever the transport
\* answered, flush and the emit that called it return normally.
FlushNeverRaises ==
    \A t \in Threads : pc[t] \in {"flush_finally", "handle_release"} => exc[t] = "none"

\* C6: when flush() ends, on every exit path, the calling thread holds the lock
\* at the depth it held it before the call; a thread outside emit and flush
\* never holds the lock.
LockReleasedOnExit ==
    /\ \A t \in Threads :
           (pc[t] = "handle_release" /\ caller[t] = "emit") => LockDepth(t) = entry[t].depth
    /\ \A t \in Threads :
           (pc[t] \in {"idle", "handle"} \/ (pc[t] = "flush" /\ caller[t] = "user"))
               => lockOwner # t
    /\ lockOwner = NoThread <=> lockCount = 0

\* a flush called by emit has ended with an error that no handler caught
LockReleasedOnExitWitness ==
    \E t \in Threads :
        /\ pc[t] = "handle_release"
        /\ exc[t] # "none"
        /\ caller[t] = "emit"
        /\ LockDepth(t) = 1

\* C7: flush() on an empty buffer is a no-op: when it reaches its finally
\* clause the buffer is still empty, no connection was opened (the flush opened
\* none and there are no more open ones than at its start; a close() of the
\* persistent handler by another thread, which takes no lock, may have left
\* fewer), no write was submitted and the store is untouched; once it has
\* returned the caller does not hold the lock.
EmptyFlushIsNoOp ==
    \A t \in Threads :
        /\ (pc[t] = "flush_finally" /\ entry[t].buf = <<>>) =>
               /\ io[t] = NoIo
               /\ res[t] = NoRes
               /\ exc[t] = "none"
               /\ buffer = <<>>
               /\ store = entry[t].store
               /\ clients <= entry[t].clients
               /\ LockDepth(t) = entry[t].depth + 1
        /\ pc[t] = "idle" => lockOwner # t

\* the second of two flushes of a buffer that was never filled
EmptyFlushIsNoOpWitness ==
    \E t \in Threads :
        /\ pc[t] = "flush_finally"
        /\ entry[t].buf = <<>>
        /\ userFlushes = 2
        /\ created = 0
        /\ buffer = <<>>
        /\ store = <<>>

\* C8: with only records below the flush level, a transport that always fully
\* succeeds and no direct flush() call, emit flushes exactly when its append
\* brings the buffer to the capacity N: after k emissions there were k \div N
\* flushes, each of N records, and the buffer holds k % N records.
CapacityTrigger ==
    plain =>
        /\ lockOwner = NoThread =>
               /\ trigFlushes = Appended \div capacity
               /\ Len(buffer) = Appended % capacity
               /\ Len(store) = capacity * trigFlushes
        /\ \A t \in Threads :
               /\ pc[t] = "flush" => Len(buffer) = capacity
               /\ (pc[t] = "handle_release" /\ res[t] = NoRes) => Len(buffer) < capacity
               /\ pc[t] = "flush_finally" =>
                      (Len(entry[t].buf) = capacity /\ buffer = <<>>)

\* capacity 2: three emissions, one flush, one record left
CapacityTriggerWitness ==
    /\ plain
    /\ lockOwner = NoThread
    /\ capacity = 2
    /\ Appended = 3
    /\ trigFlushes = 1
    /\ Len(buffer) = 1

\* C9: an emission of a record at or above the flush level runs flush() before
\* it returns, whatever the buffer length; the batch is the whole buffer, the
\* triggering record last; on full success the buffer is empty at the return.
SeverityTrigger ==
    \A t \in Threads :
        /\ (pc[t] = "handle_release" /\ rec[t].levelno >= flushLevel) =>
               res[t].outcome # "none"
        /\ (Submitted(t) /\ caller[t] = "emit") =>
               /\ batch[t] = entry[t].buf
               /\ batch[t][Len(batch[t])] = rec[t].id
        /\ (pc[t] = "handle_release" /\ res[t].outcome = "ok") => buffer = <<>>

\* one low record then one high record, the capacity not reached: both drained
SeverityTriggerWitness ==
    \E t \in Threads :
        /\ pc[t] = "handle_release"
        /\ rec[t].levelno >= flushLevel
        /\ res[t].outcome = "ok"
        /\ Len(batch[t]) = 2
        /\ capacity > 2
        /\ buffer = <<>>

TotalFailure(t) ==
    \/ res[t].outcome = "ConnectionFailure"
    \/ (res[t].outcome = "BulkWriteError" /\ res[t].n = 0)

\* C11: during an outage (every transport attempt fails with a connection
\* failure or is rejected from its first record on) an emission returns
\* normally with its record last in the buffer; an emission returns without a
\* flush only below the capacity, and the flush of an emission whose attempt
\* failed had the whole buffer as its batch and left the buffer as it was.
OutageKeepsAppending ==
    \A t \in Threads :
        /\ (pc[t] = "handle_release" /\ caller[t] # "emit") =>
               /\ Len(buffer) < capacity
               /\ buffer[Len(buffer)] = rec[t].id
        /\ (pc[t] = "handle_release" /\ caller[t] = "emit" /\ TotalFailure(t)) =>
               /\ exc[t] = "none"
               /\ batch[t] = entry[t].buf
               /\ buffer = entry[t].buf
               /\ buffer[Len(buffer)] = rec[t].id

\* capacity 1, two records kept by two failed flushes: the third emission makes
\* the length 3 and its flush, of all 3 records, fails too
OutageKeepsAppendingWitness ==
    \E t \in Threads :
        /\ pc[t] = "handle_release"
        /\ capacity = 1
        /\ failed = 3
        /\ res[t].outcome = "ConnectionFailure"
        /\ Len(batch[t]) = 3
        /\ buffer = batch[t]

\* C12: the step in which close() is called on the persistent handler closes
\* the client and is no flush: the buffer and the store are as before, no
\* thread's batch or transport use changes, and no thread moves.
ClosePersistentNoFlush ==
    [][(variant = "Persistent" /\ ~closed /\ closed') =>
           /\ clients' = 0
           /\ buffer' = buffer
           /\ store' = store
           /\ batch' = batch
           /\ io' = io
           /\ pc' = pc]_vars

\* the persistent handler closed with two records buffered and none delivered
ClosePersistentNoFlushWitness ==
    /\ variant = "Persistent"
    /\ closed
    /\ clients = 0
    /\ Len(buffer) = 2
    /\ store = <<>>
    /\ \A t \in Threads : pc[t] = "idle"

\* thread t runs one of the two flushes of the inherited close()
InCloseFlush(t) == caller[t] \in {"close", "close2"} /\ InFlush(t)

\* C13 as stated: shutting BufferedMongoLog down performs no flush, no
\* connection is opened and no write is submitted by close().
CloseBufferedNoTransport ==
    \A t \in Threads : InCloseFlush(t) => io[t] = NoIo

\* C13, amended: close() of BufferedMongoLog flushes: each of its flushes that
\* finds records opens a connection and submits them, and when close() is
\* about to release the lock the buffer is empty unless its last transport
\* attempt failed to confirm the whole batch.
CloseBufferedFlushes ==
    \A t \in Threads :
        /\ (pc[t] = "flush_finally" /\ InCloseFlush(t) /\ entry[t].buf # <<>>) =>
               (io[t].opened = 1 /\ io[t].writes = 1)
        /\ pc[t] = "close_release" =>
               /\ variant = "Buffered"
               /\ lockOwner = t
               /\ buffer # <<>> => res[t].outcome \notin {"none", "ok", "OverCount"}

\* two records below the capacity, never flushed, are delivered by close()
CloseBufferedFlushesWitness ==
    \E t \in Threads :
        /\ pc[t] = "flush_finally"
        /\ caller[t] = "close"
        /\ capacity = 3
        /\ userFlushes = 0
        /\ entry[t].buf = <<1, 2>>
        /\ entry[t].store = <<>>
        /\ res[t].outcome = "ok"
        /\ store = <<1, 2>>
        /\ buffer = <<>>

\* C14: a flush whose transport counted more records than its batch held ends
\* with an error propagating out of it; it does not return normally.
OverCountIsFatal ==
    \A t \in Threads :
        (pc[t] = "flush_finally" /\ res[t].n > Len(batch[t])) => exc[t] # "none"

\* the store holds some record more than once
StoreHasDuplicate ==
    \E i, j \in 1..Len(store) : i < j /\ store[i] = store[j]

\* C15: delivery is at-least-once: the store can hold a record twice, and it
\* does so only after a transport attempt wrote records it did not confirm
\* (the connection failed, or the result carried no count, after the write):
\* those records stay in the buffer and a later flush submits them again.
DuplicateOnlyAfterLostAck == StoreHasDuplicate => lostAck

\* a batch of 2 lost its connection after the first record was written; the
\* next flush wrote both again
DuplicateOnlyAfterLostAckWitness ==
    /\ store = <<1, 1, 2>>
    /\ buffer = <<>>
    /\ lostAck
    /\ failed = 0

\* C16 as stated: when a flush of BufferedMongoLog drains the confirmed prefix
\* the connection of that flush is still open (it is released after the drain).
DrainBeforeTransportRelease ==
    \A t \in Threads :
        (variant = "Buffered" /\ pc[t] \in {"drain", "except_bwe"}) => clients > 0

\* C16, amended: a flush of a non-empty buffer of BufferedMongoLog takes the
\* lock, opens the connection, takes the batch, submits it, closes the
\* connection, drains the confirmed prefix and releases the lock last: the
\* batch is taken with the connection open, and at the drain the connection is
\* already closed, the buffer still whole and the lock still held.
FlushStepOrder ==
    \A t \in Threads :
        /\ InFlush(t) => lockOwner = t
        /\ variant = "Buffered" =>
               /\ pc[t] = "connect" => (io[t] = NoIo /\ batch[t] = <<>> /\ clients = 0)
               /\ pc[t] = "bulk_write" =>
                      (io[t] = [opened |-> 1, writes |-> 0] /\ batch[t] = <<>> /\ clients = 1)
               /\ pc[t] \in {"writing", "with_exit"} =>
                      (io[t].writes = 1 /\ clients = 1 /\ buffer = entry[t].buf)
               /\ pc[t] \in {"drain", "except_bwe"} =>
                      (io[t].writes = 1 /\ clients = 0 /\ buffer = entry[t].buf)
               /\ (pc[t] = "flush_finally" /\ entry[t].buf # <<>>) => clients = 0

\* a bulk-write error that confirmed one record of two: the connection is
\* closed, the prefix not yet drained
FlushStepOrderWitness ==
    \E t \in Threads :
        /\ variant = "Buffered"
        /\ pc[t] = "except_bwe"
        /\ res[t].n = 1
        /\ Len(buffer) = 2
        /\ clients = 0
        /\ lockOwner = t

\* the flushes of BufferedMongoLog that are inside their with-block
InWithBlock == {t \in Threads : pc[t] \in {"bulk_write", "writing", "with_exit"}}

\* C17: in BufferedMongoLog a connection is open only while a flush is inside
\* its with-block, on every path out of it: with no flush in progress the
\* handler has no open connection, a flush about to return has closed the
\* connection it opened, and a flush of a non-empty buffer has opened exactly
\* one.
ScopedConnection ==
    variant = "Buffered" =>
        /\ clients = Cardinality(InWithBlock)
        /\ (\A t \in Threads : ~InFlush(t)) => clients = 0
        /\ \A t \in Threads :
               /\ io[t].opened <= 1
               /\ pc[t] = "flush_finally" =>
                      /\ clients = 0
                      /\ io[t].opened = (IF entry[t].buf # <<>> THEN 1 ELSE 0)

\* a flush whose write raised an error that flush does not catch is about to
\* return: its connection is closed
ScopedConnectionWitness ==
    \E t \in Threads :
        /\ variant = "Buffered"
        /\ pc[t] = "flush_finally"
        /\ exc[t] = "OperationFailure"
        /\ io[t].opened = 1
        /\ clients = 0

\* C18: however the constructions interleave, db.create_collection is called
\* at most once for the name and no construction raises because the
\* collection exists already.
CreateCollectionOnce ==
    /\ createCalls <= 1
    /\ \A h \in Handlers : herr[h] = "none"

\* the records of a sequence
Range(s) == {s[i] : i \in 1..Len(s)}

\* C19: every record appended so far is in the buffer or in the store: a flush
\* removes from the buffer only records that the transport wrote and counted.
NoLoss ==
    \A id \in 1..Appended : id \in Range(buffer) \cup Range(store)

\* before close(): of three records the first was confirmed by a bulk-write
\* error, the other two are still buffered
NoLossWitness ==
    /\ ~closed
    /\ Appended = 3
    /\ store = <<1>>
    /\ buffer = <<2, 3>>
    /\ \A t \in Threads : pc[t] = "idle"

\* the records emitted so far, in the order of their appends
Emitted == [i \in 1..Appended |-> i]

\* thread t's flush has the transport's count and has not drained it yet
DrainPending(t) == pc[t] \in {"with_exit", "drain", "except_bwe"} /\ res[t].n > 0

\* C20 as stated: with exact transport results, in every state the store
\* followed by the buffer is the sequence of the emitted records.
StoreThenBufferAlways == ~lostAck => store \o buffer = Emitted

\* C20, amended: with exact transport results the store is in every state a
\* duplicate-free prefix of the emitted sequence, and the store followed by
\* the buffer is the emitted sequence in every state in which no flush stands
\* between the transport's answer and its drain.
ChronologicalOrder ==
    ~lostAck =>
        /\ store = SubSeq(Emitted, 1, Len(store))
        /\ (\A t \in Threads : ~DrainPending(t)) => store \o buffer = Emitted

\* two flushes delivered records 1 and 2 in order, record 3 is buffered
ChronologicalOrderWitness ==
    /\ ~lostAck
    /\ capacity = 1
    /\ store = <<1, 2>>
    /\ buffer = <<3>>
    /\ \E t \in Threads : pc[t] = "flush" /\ caller[t] = "emit"

\* the buffer is empty and every record appended so far is in the store
AllDelivered ==
    /\ buffer = <<>>
    /\ \A id \in 1..Appended : id \in Range(store)

\* what a flush leaves in the buffer is the head of the next batch: outside
\* the drain of a flush the buffer changes only by growing at its end, and a
\* flush takes the whole buffer as its batch
RetryKeepsHead ==
    [][/\ \A t \in Threads :
              (pc[t] = "bulk_write" /\ pc'[t] = "writing") => batch'[t] = buffer
       /\ (\A t \in Threads : pc[t] \notin {"drain", "except_bwe"}) =>
              /\ Len(buffer') >= Len(buffer)
              /\ SubSeq(buffer', 1, Len(buffer)) = buffer]_vars

\* once the transport has recovered, a flush that was called or triggered
\* leads to the buffer empty and everything appended in the store
FlushLeadsToDelivery ==
    \A t \in Threads : (healthy /\ pc[t] = "flush") ~> AllDelivered

\* C21: eventual delivery by retry: the records a failed or partial flush left
\* are the head, in their order, of the next flush's batch; and, the threads
\* being scheduled fairly, once the transport fully succeeds from some moment
\* on and a flush is triggered or called, the buffer becomes empty with every
\* record emitted before in the store.
EventualDelivery == RetryKeepsHead /\ FlushLeadsToDelivery

\* capacity 1: the flush of the first record failed, the transport recovered,
\* and the flush triggered by the second record delivered both, in order
EventualDeliveryWitness ==
    \E t \in Threads :
        /\ healthy
        /\ pc[t] = "flush_finally"
        /\ caller[t] = "emit"
        /\ capacity = 1
        /\ batch[t] = <<1, 2>>
        /\ buffer = <<>>
        /\ store = <<1, 2>>

====
